---------------------------- MODULE Spec2Model ----------------------------
(***************************************************************************)
(* A model of the clipboard synchronisation engine of universal-clipboard  *)
(* (src/src/enhanced-server.js, class EnhancedClipboardServer): the        *)
(* socket handlers, the HTTP API handlers that reach updateClipboard, the  *)
(* rate-limit queue with its deferred timer, the conflict map, the         *)
(* content filter, the history, the local clipboard poller with its        *)
(* interval timer, and the browser page of public/enhanced-app.js that     *)
(* receives the server's clipboard-update events.                          *)
(*                                                                         *)
(* Every handler runs to completion on the single JavaScript thread, so    *)
(* each handler is one atomic action.  The clock (Date.now()) advances     *)
(* between handlers; a setTimeout callback runs at some moment not before  *)
(* its due time.  The system clipboard is the one clipboardy reads and     *)
(* writes synchronously (terminalOnly off).  The initial state is the one  *)
(* after the constructor and start(): the server listens and the poller's  *)
(* timer is set.                                                           *)
(***************************************************************************)
EXTENDS Integers, Sequences, FiniteSets, TLC

(***************************************************************************)
(* Bounds of the model.                                                    *)
(***************************************************************************)
\* the clock stops advancing after this many rate-limit intervals
MaxIntervals == 2
\* updateClipboard queues nothing more once the pending queue is this long
MaxQueue == 2

(***************************************************************************)
(* Program constants.                                                      *)
(***************************************************************************)
minSyncInterval == 50
conflictWindow == 1000
maxHistorySize == 10
defaultPollingInterval == 100
minPollingInterval == 50
maxContentLength == 50000
historyContentLimit == 1000
previewLimit == 100
pruneAge == 5000
maintenancePeriod == 10000

(***************************************************************************)
(* Clipboard text.  A text is the first len characters of one of a few     *)
(* endless character streams, named by tag:                                *)
(*   "a"  aaaaa...          matches no sensitive pattern                   *)
(*   "b"  bbbbb...          matches no sensitive pattern                   *)
(*   "k"  key=kkkk...       matches /key\s*[:=]/i from 4 characters on     *)
(*   "t"  ttttt...          matches no sensitive pattern                   *)
(* so that substring(0, n) and length are computed, not tabulated.  The    *)
(* empty string is the same text whatever the stream.                      *)
(***************************************************************************)
Text(tag, len) == IF len = 0 THEN [tag |-> "", len |-> 0] ELSE [tag |-> tag, len |-> len]

Empty == Text("", 0)
TextA == Text("a", 5)
TextB == Text("b", 5)
TextKey == Text("k", 5)
TextBig == Text("a", maxContentLength + 1)
TextLong == Text("a", historyContentLimit + 1)

Length(content) == content.len

\* String.prototype.substring(0, n)
Substring(content, n) == Text(content.tag, IF content.len < n THEN content.len ELSE n)

Devices == {"d1", "d2", "d3"}

VARIABLES
  now,               \* Date.now()
  sockets,           \* socket id -> "new" | "open" | "closed"
  connectedDevices,  \* this.connectedDevices: registered socket id -> device
  clipboardHistory,  \* this.clipboardHistory, front first
  lastClipboard,     \* this.lastClipboard
  lastClipboardHash, \* this.lastClipboardHash
  syncQueue,         \* this.syncQueue
  processing,        \* this.processing
  timers,            \* due times of the pending setTimeout callbacks of processSyncQueue
  conflictResolver,  \* this.conflictResolver: hash -> time
  lastSyncTime,      \* this.lastSyncTime
  autoSyncEnabled,   \* this.autoSyncEnabled
  osClipboard,       \* the operating system's clipboard (clipboardy)
  emitted,           \* the events the last handler emitted, in order
  lastArrival,       \* when the update that set lastClipboard reached the server (observation only)
  pollingInterval,   \* this.pollingInterval
  clipboardMonitor,  \* this.clipboardMonitor: the handle setInterval returned
  monitors,          \* the interval timers of the poller that are set and not cleared
  client,            \* the EnhancedUniversalClipboard object of one browser page
  browser,           \* that page's clipboard, visibility and clipboard permission
  awaited            \* terminal-only mode: the awaited clipboard commands in flight

vars == <<now, sockets, connectedDevices, clipboardHistory, lastClipboard,
          lastClipboardHash, syncQueue, processing, timers, conflictResolver,
          lastSyncTime, autoSyncEnabled, osClipboard, emitted, lastArrival,
          pollingInterval, clipboardMonitor, monitors, client, browser, awaited>>


(***************************************************************************)
(* Pure helpers of the server.                                             *)
(***************************************************************************)
\* generateHash: md5 of (content || ''), taken as collision-free
generateHash(content) == [md5 |-> content]

\* one of this.sensitivePatterns matches: of the streams above only key=kkk... does
MatchesSensitivePattern(content) == content.tag = "k" /\ content.len >= 4

\* a filter that lets every text through
isContentFilteredNever(content) == FALSE

isContentFiltered(content) ==
  \/ content = Empty
  \/ Length(content) > maxContentLength
  \/ MatchesSensitivePattern(content)

\* content.replace(/\n/g, ' '): none of the streams holds a line break
ReplaceNewlines(content) == content

historyItem(content, t) ==
  [content |-> Substring(content, historyContentLimit),
   timestamp |-> t,
   hash |-> generateHash(content),
   preview |-> ReplaceNewlines(Substring(content, previewLimit)),
   size |-> Length(content)]

\* Array.prototype.findIndex, 0-based, -1 when no item has the hash
FindIndex(hist, hash) ==
  IF \E i \in 1..Len(hist) : hist[i].hash = hash
  THEN (CHOOSE i \in 1..Len(hist) :
          /\ hist[i].hash = hash
          /\ \A j \in 1..(i - 1) : hist[j].hash # hash) - 1
  ELSE -1

\* hist.splice(index, 1), index 0-based
RemoveAt(hist, index) ==
  SubSeq(hist, 1, index) \o SubSeq(hist, index + 2, Len(hist))

\* a slice that drops nothing
SliceAll(hist, n) == hist

\* hist.slice(0, n)
Slice(hist, n) == IF Len(hist) > n THEN SubSeq(hist, 1, n) ELSE hist

\* addToHistory returns before its broadcast: empty content, or the hash is at the front
historyUntouched(hist, content) ==
  \/ content = Empty
  \/ FindIndex(hist, generateHash(content)) = 0

\* a recording without the search for the hash: every text is a new item
addToHistoryUnshift(hist, content, t) ==
  IF content = Empty THEN hist ELSE Slice(<<historyItem(content, t)>> \o hist, maxHistorySize)

\* the history addToHistory leaves
addToHistory(hist, content, t) ==
  LET hash == generateHash(content)
      existingIndex == FindIndex(hist, hash)
  IN IF historyUntouched(hist, content) THEN hist
     ELSE IF existingIndex > 0
          THEN Slice(<<hist[existingIndex + 1]>> \o RemoveAt(hist, existingIndex),
                     maxHistorySize)
          ELSE Slice(<<historyItem(content, t)>> \o hist, maxHistorySize)

\* a set as a sequence, in some fixed order
RECURSIVE SetToSeq(_)
SetToSeq(S) ==
  IF S = {} THEN <<>>
  ELSE LET x == CHOOSE y \in S : TRUE IN <<x>> \o SetToSeq(S \ {x})

OpenSockets == {d \in Devices : sockets[d] = "open"}

\* io.emit('clipboard-history', this.clipboardHistory): one event per connected socket
RECURSIVE historyEvents(_, _)
historyEvents(to, hist) ==
  IF to = <<>> THEN <<>>
  ELSE <<[ev |-> "clipboard-history", to |-> Head(to), history |-> hist]>>
       \o historyEvents(Tail(to), hist)

\* faulty variants of the test below: without the source test, without the autoSync test
isFanOutTargetEcho(deviceId, sourceId) == connectedDevices[deviceId].autoSync

isFanOutTargetAll(deviceId, sourceId) == deviceId # sourceId

\* the test of the broadcast loop of updateClipboard
isFanOutTarget(deviceId, sourceId) ==
  deviceId # sourceId /\ connectedDevices[deviceId].autoSync

updateData(deviceId, content, sourceId, contentHash) ==
  [ev |-> "clipboard-update", to |-> deviceId, content |-> content, from |-> sourceId,
   timestamp |-> now, hash |-> contentHash, autoWrite |-> TRUE, force |-> FALSE]

\* a faulty variant of the loop below: it stops after the first registered device
fanOutOnce(ids, content, sourceId, contentHash) ==
  IF ids = <<>> THEN <<>>
  ELSE IF isFanOutTarget(Head(ids), sourceId)
       THEN <<updateData(Head(ids), content, sourceId, contentHash)>>
       ELSE <<>>

\* this.connectedDevices.forEach(...) of updateClipboard
RECURSIVE fanOut(_, _, _, _)
fanOut(ids, content, sourceId, contentHash) ==
  IF ids = <<>> THEN <<>>
  ELSE (IF isFanOutTarget(Head(ids), sourceId)
        THEN <<updateData(Head(ids), content, sourceId, contentHash)>>
        ELSE <<>>) \o fanOut(Tail(ids), content, sourceId, contentHash)

\* a faulty variant of the gate below: it never closes
gateClosesNever(sourceId) == FALSE

\* the global gate of updateClipboard
gateCloses(sourceId) == ~autoSyncEnabled /\ sourceId # "local"

\* a faulty variant of the loop suppression below: it suppresses nothing
loopSuppressedNever(contentHash) == FALSE

\* the loop suppression of updateClipboard
loopSuppressed(contentHash) == contentHash = lastClipboardHash

\* a faulty variant of the rate limit below: twice the interval
rateLimitedTwice(t) == t - lastSyncTime < 2 * minSyncInterval

\* the rate limit of updateClipboard
rateLimited(t) == t - lastSyncTime < minSyncInterval

\* a faulty variant of the conflict check below: it finds no conflict
inConflictNever(contentHash, t) == FALSE

\* the conflict check of updateClipboard
inConflict(contentHash, t) ==
  /\ contentHash \in DOMAIN conflictResolver
  /\ t - conflictResolver[contentHash] < conflictWindow

\* a faulty variant of the condition below: every accepted update is written
writesClipboardAlways(autoWrite, sourceId) == TRUE

\* the condition of the write to the system clipboard
writesClipboard(autoWrite, sourceId) == autoWrite /\ sourceId # "local"

\* a faulty variant of processSyncQueue below: without the test of this.processing
processSyncQueueAlways(queue, proc, tms) ==
  IF queue = <<>>
  THEN [processing |-> proc, timers |-> tms]
  ELSE [processing |-> TRUE, timers |-> Append(tms, now + minSyncInterval)]

\* processSyncQueue: arms the deferred timer unless one is being processed
processSyncQueue(queue, proc, tms) ==
  IF proc \/ queue = <<>>
  THEN [processing |-> proc, timers |-> tms]
  ELSE [processing |-> TRUE, timers |-> Append(tms, now + minSyncInterval)]


\* the value of this.lastClipboardHash after construction: '', the md5 of nothing
NoHash == [md5 |-> [tag |-> "none", len |-> -1]]

\* this.conflictResolver.set(contentHash, t)
setConflict(contentHash, t) ==
  [h \in DOMAIN conflictResolver \cup {contentHash} |->
     IF h = contentHash THEN t ELSE conflictResolver[h]]

\* a faulty variant of the assignments below: the hash is left as it was
setLatestStaleHash(fields, content, contentHash, arrived) ==
  [fields EXCEPT !.conflictResolver = setConflict(contentHash, now),
                 !.lastSyncTime = now,
                 !.lastClipboard = content,
                 !.lastArrival = arrived]

\* the four assignments of updateClipboard once an update is past the conflict check
setLatest(fields, content, contentHash, arrived) ==
  [fields EXCEPT !.conflictResolver = setConflict(contentHash, now),
                 !.lastSyncTime = now,
                 !.lastClipboard = content,
                 !.lastClipboardHash = contentHash,
                 !.lastArrival = arrived]

\* a clipboardy.writeSync whose failure leaves the try block of updateClipboard
\* as an exception of the caller
tryWriteUncaught(writes, writeOk) ==
  IF writes THEN (IF writeOk THEN "ok" ELSE "thrown") ELSE "none"

\* try { clipboardy.writeSync(content) } catch (error) { log }: the write is made
\* where wanted, and a failure is logged and goes no further
tryWrite(writes, writeOk) ==
  IF writes THEN (IF writeOk THEN "ok" ELSE "failed") ELSE "none"

(***************************************************************************)
(* updateClipboard(content, sourceId, autoWrite), as a function of the     *)
(* state it is called in.  queue, proc and tms are this.syncQueue,         *)
(* this.processing and the pending timers at the moment of the call (the   *)
(* timer callback empties the queue before it calls); arrived is the time  *)
(* the update first reached the server; writeOk is whether the write to    *)
(* the system clipboard succeeds.  The result holds the fields it leaves   *)
(* and the path it took (outcome).                                         *)
(***************************************************************************)
updateClipboard(content, sourceId, autoWrite, arrived, queue, proc, tms, writeOk) ==
  LET contentHash == generateHash(content)
      same == [outcome |-> "gated",
               lastClipboard |-> lastClipboard,
               lastClipboardHash |-> lastClipboardHash,
               lastSyncTime |-> lastSyncTime,
               conflictResolver |-> conflictResolver,
               clipboardHistory |-> clipboardHistory,
               osClipboard |-> osClipboard,
               syncQueue |-> queue,
               processing |-> proc,
               timers |-> tms,
               lastArrival |-> lastArrival,
               wrote |-> "none",
               emitted |-> <<>>]
      entry == [content |-> content, sourceId |-> sourceId, autoWrite |-> autoWrite,
                timestamp |-> now, hash |-> contentHash, arrived |-> arrived]
      armed == processSyncQueue(Append(queue, entry), proc, tms)
      marked == setLatest(same, content, contentHash, arrived)
      writes == writesClipboard(autoWrite, sourceId)
  IN IF gateCloses(sourceId) THEN same
     ELSE IF loopSuppressed(contentHash) THEN [same EXCEPT !.outcome = "loop"]
     ELSE IF rateLimited(now)
          THEN [same EXCEPT !.outcome = "queued",
                            !.syncQueue = Append(queue, entry),
                            !.processing = armed.processing,
                            !.timers = armed.timers]
     ELSE IF inConflict(contentHash, now) THEN [same EXCEPT !.outcome = "conflict"]
     ELSE IF isContentFiltered(content) THEN [marked EXCEPT !.outcome = "filtered"]
     ELSE IF tryWrite(writes, writeOk) = "thrown"
          THEN [marked EXCEPT !.outcome = "thrown", !.wrote = "thrown"]
     ELSE [marked EXCEPT
             !.outcome = "accepted",
             !.wrote = tryWrite(writes, writeOk),
             !.osClipboard = IF writes /\ writeOk THEN content ELSE osClipboard,
             !.clipboardHistory = addToHistory(clipboardHistory, content, now),
             !.emitted =
                (IF historyUntouched(clipboardHistory, content) THEN <<>>
                 ELSE historyEvents(SetToSeq(OpenSockets),
                                    addToHistory(clipboardHistory, content, now)))
                \o fanOut(SetToSeq(DOMAIN connectedDevices), content, sourceId, contentHash)]

\* the state a handler leaves after one call r of updateClipboard
Apply(r) ==
  /\ lastClipboard' = r.lastClipboard
  /\ lastClipboardHash' = r.lastClipboardHash
  /\ lastSyncTime' = r.lastSyncTime
  /\ conflictResolver' = r.conflictResolver
  /\ clipboardHistory' = r.clipboardHistory
  /\ osClipboard' = r.osClipboard
  /\ syncQueue' = r.syncQueue
  /\ timers' = r.timers
  /\ emitted' = r.emitted
  /\ lastArrival' = r.lastArrival

\* the queue bound: no call that would push onto a full queue
Fits(r, room) == Len(r.syncQueue) <= room

\* a failing write is a case of its own only where a write is attempted
writeCounts(r, writeOk) == writeOk \/ r.wrote \in {"failed", "thrown"}

\* req.body.content of a request without the field
Undefined == Text("undefined", -1)

\* this.clipboardMonitor before the first setInterval
NoTimer == 0

pollerVars == <<pollingInterval, clipboardMonitor, monitors>>

\* what every handler but POST /api/settings and those of the browser page leaves alone
Elsewhere == UNCHANGED <<pollerVars, client, browser, awaited>>

\* the handle of the next setInterval: one that no pending timer has
FreshHandle(active) ==
  CHOOSE n \in 1..(Cardinality(active) + 1) : \A m \in active : m.id # n

\* a start of the poller that leaves the timer of the previous start running
startWithoutClear(monitor, active, interval, t) ==
  [clipboardMonitor |-> FreshHandle(active),
   monitors |-> active \cup {[id |-> FreshHandle(active), interval |-> interval, since |-> t]}]

\* startClipboardMonitoring: clearInterval of the present handle, then setInterval at
\* this.pollingInterval
startClipboardMonitoring(monitor, active, interval, t) ==
  LET cleared == IF monitor # NoTimer THEN {m \in active : m.id # monitor} ELSE active
  IN [clipboardMonitor |-> FreshHandle(cleared),
      monitors |-> cleared \cup {[id |-> FreshHandle(cleared), interval |-> interval,
                                  since |-> t]}]

engineVars == <<lastClipboard, lastClipboardHash, lastSyncTime, conflictResolver,
                clipboardHistory, osClipboard, syncQueue, processing, timers, lastArrival>>

Init ==
  /\ now = minSyncInterval
  /\ sockets = [d \in Devices |-> "new"]
  /\ connectedDevices = <<>>
  /\ clipboardHistory = <<>>
  /\ lastClipboard = Empty
  /\ lastClipboardHash = NoHash
  /\ syncQueue = <<>>
  /\ processing = FALSE
  /\ timers = <<>>
  /\ conflictResolver = <<>>
  /\ lastSyncTime = 0
  /\ autoSyncEnabled = TRUE
  /\ osClipboard = Empty
  /\ emitted = <<>>
  /\ lastArrival = 0
  /\ pollingInterval = defaultPollingInterval
  /\ clipboardMonitor =
       startClipboardMonitoring(NoTimer, {}, defaultPollingInterval,
                                minSyncInterval).clipboardMonitor
  /\ monitors =
       startClipboardMonitoring(NoTimer, {}, defaultPollingInterval, minSyncInterval).monitors
  /\ client = [isConnected |-> FALSE, lastContent |-> Empty, lastContentHash |-> NoHash,
               currentContent |-> Empty, autoSyncEnabled |-> TRUE,
               clipboardAPISupported |-> TRUE]
  /\ browser = [clipboard |-> Empty, visible |-> TRUE, granted |-> TRUE]
  /\ awaited = <<>>


(***************************************************************************)
(* Handlers.  Events other than clipboard-update and clipboard-history     *)
(* (device-list, pong, error) carry no clipboard text and are left out.    *)
(***************************************************************************)
\* io.on('connection'): a socket with a fresh id
Connect(d) ==
  /\ sockets[d] = "new"
  /\ sockets' = [sockets EXCEPT ![d] = "open"]
  /\ emitted' = <<>>
  /\ UNCHANGED <<now, connectedDevices, engineVars, autoSyncEnabled>>
  /\ Elsewhere

\* the clipboard-update sent to one socket with the server's current content
currentContentEvent(d, isForce) ==
  [ev |-> "clipboard-update", to |-> d, content |-> lastClipboard, from |-> "server",
   timestamp |-> now, hash |-> lastClipboardHash, autoWrite |-> TRUE, force |-> isForce]

\* socket.on('register-device')
RegisterDevice(d, autoSync) ==
  /\ sockets[d] = "open"
  /\ connectedDevices' =
       [x \in DOMAIN connectedDevices \cup {d} |->
          IF x = d THEN [autoSync |-> autoSync] ELSE connectedDevices[x]]
  /\ emitted' = historyEvents(SetToSeq(OpenSockets), clipboardHistory)
                \o (IF lastClipboard # Empty THEN <<currentContentEvent(d, FALSE)>> ELSE <<>>)
  /\ UNCHANGED <<now, sockets, engineVars, autoSyncEnabled>>
  /\ Elsewhere

\* socket.on('clipboard-update')
ClipboardUpdate(d, content, autoWrite, writeOk, room) ==
  LET r == updateClipboard(content, d, autoWrite, now, syncQueue, processing, timers, writeOk)
  IN /\ sockets[d] = "open"
     /\ Fits(r, room)
     /\ writeCounts(r, writeOk)
     /\ Apply(r)
     /\ processing' = r.processing
     /\ UNCHANGED <<now, sockets, connectedDevices, autoSyncEnabled>>
     /\ Elsewhere

\* socket.on('toggle-auto-sync')
ToggleAutoSync(d, enabled) ==
  /\ sockets[d] = "open"
  /\ connectedDevices' =
       IF d \in DOMAIN connectedDevices
       THEN [connectedDevices EXCEPT ![d].autoSync = enabled]
       ELSE connectedDevices
  /\ emitted' = <<>>
  /\ UNCHANGED <<now, sockets, engineVars, autoSyncEnabled>>
  /\ Elsewhere

\* a faulty variant of the delete below: the entry stays
deleteDeviceNever(devices, d) == devices

\* this.connectedDevices.delete(socket.id)
deleteDevice(devices, d) == [x \in DOMAIN devices \ {d} |-> devices[x]]

\* socket.on('disconnect')
Disconnect(d) ==
  /\ sockets[d] = "open"
  /\ sockets' = [sockets EXCEPT ![d] = "closed"]
  /\ connectedDevices' = deleteDevice(connectedDevices, d)
  /\ emitted' = <<>>
  /\ UNCHANGED <<now, engineVars, autoSyncEnabled>>
  /\ Elsewhere

\* a faulty variant of the operator below: an io.emit, to every open socket
forceSyncEventsAll(deviceId) ==
  IF lastClipboard # Empty
  THEN [i \in DOMAIN SetToSeq(OpenSockets) |->
          currentContentEvent(SetToSeq(OpenSockets)[i], TRUE)]
  ELSE <<>>

\* forceSyncToDevice
forceSyncEvents(deviceId) ==
  IF lastClipboard # Empty THEN <<currentContentEvent(deviceId, TRUE)>> ELSE <<>>

\* socket.on('force-sync')
ForceSync(d) ==
  /\ sockets[d] = "open"
  /\ emitted' = forceSyncEvents(d)
  /\ UNCHANGED <<now, sockets, connectedDevices, engineVars, autoSyncEnabled>>
  /\ Elsewhere

\* socket.on('request-clipboard'): the system clipboard as it is, or an error event
RequestClipboard(d, readOk) ==
  /\ sockets[d] = "open"
  /\ emitted' =
       IF readOk
       THEN <<[ev |-> "clipboard-update", to |-> d, content |-> osClipboard,
               from |-> "server", timestamp |-> now, hash |-> generateHash(osClipboard),
               autoWrite |-> TRUE, force |-> FALSE]>>
       ELSE <<[ev |-> "error", to |-> d, message |-> "Failed to read clipboard"]>>
  /\ UNCHANGED <<now, sockets, connectedDevices, engineVars, autoSyncEnabled>>
  /\ Elsewhere

\* the index test of both use-history handlers
validIndex(index) == index >= 0 /\ index < Len(clipboardHistory)

\* socket.on('use-history-item')
UseHistoryItem(d, index, writeOk, room) ==
  LET content == clipboardHistory[index + 1].content
      r == updateClipboard(content, d, TRUE, now, syncQueue, processing, timers, writeOk)
  IN /\ sockets[d] = "open"
     /\ IF validIndex(index)
        THEN /\ Fits(r, room)
             /\ writeCounts(r, writeOk)
             /\ Apply(r)
             /\ processing' = r.processing
        ELSE /\ emitted' = <<>>
             /\ UNCHANGED engineVars
     /\ UNCHANGED <<now, sockets, connectedDevices, autoSyncEnabled>>
     /\ Elsewhere

\* what POST /api/clipboard sends back (no success field and no error field are
\* FALSE and the empty string)
postClipboardReply(content) ==
  IF content # Undefined
  THEN [status |-> 200, success |-> TRUE, error |-> ""]
  ELSE [status |-> 400, success |-> FALSE, error |-> "Content required"]

\* POST /api/clipboard
ApiPostClipboard(content, writeOk, room) ==
  LET r == updateClipboard(content, "api", TRUE, now, syncQueue, processing, timers, writeOk)
  IN /\ IF content # Undefined
        THEN /\ Fits(r, room)
             /\ writeCounts(r, writeOk)
             /\ Apply(r)
             /\ processing' = r.processing
        ELSE /\ writeOk
             /\ emitted' = <<>>
             /\ UNCHANGED engineVars
     /\ UNCHANGED <<now, sockets, connectedDevices, autoSyncEnabled>>
     /\ Elsewhere

\* what POST /api/history/:index sends back
useHistoryReply(index) ==
  IF validIndex(index)
  THEN [status |-> 200, success |-> TRUE, error |-> "",
        content |-> clipboardHistory[index + 1].content]
  ELSE [status |-> 404, success |-> FALSE, error |-> "History item not found",
        content |-> Empty]

\* POST /api/history/:index
ApiUseHistory(index, writeOk, room) ==
  LET content == clipboardHistory[index + 1].content
      r == updateClipboard(content, "history", TRUE, now, syncQueue, processing, timers, writeOk)
  IN /\ IF validIndex(index)
        THEN /\ Fits(r, room)
             /\ writeCounts(r, writeOk)
             /\ Apply(r)
             /\ processing' = r.processing
        ELSE /\ emitted' = <<>>
             /\ UNCHANGED engineVars
     /\ UNCHANGED <<now, sockets, connectedDevices, autoSyncEnabled>>
     /\ Elsewhere

\* the test of POST /api/settings on req.body.pollingInterval: given (a sequence of
\* one number, the empty sequence when the field is absent) and not below the minimum
acceptsInterval(interval) == interval # <<>> /\ interval[1] >= minPollingInterval

\* what POST /api/settings sends back, given the two settings as it leaves them
settingsReply(autoSync, interval) ==
  [status |-> 200, success |-> TRUE, autoSync |-> autoSync, pollingInterval |-> interval]

\* POST /api/settings with autoSync given
ApiSettings(autoSync, interval) ==
  LET restarted == startClipboardMonitoring(clipboardMonitor, monitors, interval[1], now)
  IN /\ autoSyncEnabled' = autoSync
     /\ IF acceptsInterval(interval)
        THEN /\ pollingInterval' = interval[1]
             /\ clipboardMonitor' = restarted.clipboardMonitor
             /\ monitors' = restarted.monitors
        ELSE UNCHANGED pollerVars
     /\ emitted' = <<>>
     /\ UNCHANGED <<now, sockets, connectedDevices, engineVars, client, browser, awaited>>

\* the test of the poller's tick on what it read
pollerIngests(currentClipboard) ==
  generateHash(currentClipboard) # lastClipboardHash /\ currentClipboard # Empty

\* a clipboardy.readSync whose failure leaves the callback as an exception: the
\* promise of the async callback is rejected with no handler
tryReadUncaught(clip, readOk) ==
  IF readOk THEN [status |-> "ok", content |-> clip]
  ELSE [status |-> "thrown", content |-> Empty]

\* try { currentClipboard = clipboardy.readSync() ... } catch (error) { log }: a
\* failure is logged and the tick ends with no text read
tryRead(clip, readOk) ==
  IF readOk THEN [status |-> "ok", content |-> clip]
  ELSE [status |-> "failed", content |-> Empty]

\* one tick of the setInterval callback of startClipboardMonitoring; an exception
\* that left the callback would end the process and its timers with it
PollTick(readOk, room) ==
  LET read == tryRead(osClipboard, readOk)
      r == updateClipboard(read.content, "local", FALSE, now, syncQueue, processing,
                           timers, TRUE)
  IN /\ monitors # {}
     /\ IF read.status = "ok" /\ pollerIngests(read.content)
        THEN /\ Fits(r, room)
             /\ Apply(r)
             /\ processing' = r.processing
        ELSE /\ emitted' = <<>>
             /\ UNCHANGED engineVars
     /\ UNCHANGED <<now, sockets, connectedDevices, autoSyncEnabled>>
     /\ IF read.status = "thrown"
        THEN /\ monitors' = {}
             /\ UNCHANGED <<pollingInterval, clipboardMonitor, client, browser, awaited>>
        ELSE Elsewhere

\* a faulty variant of the pop below: the oldest entry (a shift)
popOldest(queue) == queue[1]

\* this.syncQueue.pop() in the timer callback
popLatest(queue) == queue[Len(queue)]

\* the callback processSyncQueue hands to setTimeout; i is the timer that fires
TimerFire(i, writeOk) ==
  LET rest == SubSeq(timers, 1, i - 1) \o SubSeq(timers, i + 1, Len(timers))
      latest == popLatest(syncQueue)
      r == updateClipboard(latest.content, latest.sourceId, latest.autoWrite,
                           latest.arrived, <<>>, processing, rest, writeOk)
  IN /\ i \in 1..Len(timers)
     /\ timers[i] <= now
     /\ IF syncQueue # <<>>
        THEN /\ writeCounts(r, writeOk)
             /\ Apply(r)
        ELSE /\ writeOk
             /\ timers' = rest
             /\ emitted' = <<>>
             /\ UNCHANGED <<lastClipboard, lastClipboardHash, lastSyncTime, conflictResolver,
                            clipboardHistory, osClipboard, syncQueue, lastArrival>>
     /\ processing' = FALSE
     /\ UNCHANGED <<now, sockets, connectedDevices, autoSyncEnabled>>
     /\ Elsewhere

\* the local user copies another text on the server's machine
UserCopy(content) ==
  /\ content # osClipboard
  /\ osClipboard' = content
  /\ emitted' = <<>>
  /\ UNCHANGED <<now, sockets, connectedDevices, lastClipboard, lastClipboardHash,
                 lastSyncTime, conflictResolver, clipboardHistory, syncQueue, processing,
                 timers, autoSyncEnabled, lastArrival>>
  /\ Elsewhere

\* time passes: step milliseconds, at most horizon times
Tick(step, horizon) ==
  /\ now + step <= minSyncInterval + horizon * step
  /\ now' = now + step
  /\ emitted' = <<>>
  /\ UNCHANGED <<sockets, connectedDevices, engineVars, autoSyncEnabled>>
  /\ Elsewhere

\* a faulty variant of the pruning below: a bulk clear
prunedAll(map, t) == <<>>

\* the loop of the maintenance callback: every entry older than pruneAge is deleted
pruned(map, t) == [h \in {x \in DOMAIN map : ~(t - map[x] > pruneAge)} |-> map[h]]

\* the callback of the setInterval of start(), first due maintenancePeriod after
\* the start and run then or later
Maintenance ==
  /\ now >= minSyncInterval + maintenancePeriod
  /\ conflictResolver' = pruned(conflictResolver, now)
  /\ emitted' = <<>>
  /\ UNCHANGED <<now, sockets, connectedDevices, lastClipboard, lastClipboardHash,
                 lastSyncTime, clipboardHistory, syncQueue, processing, timers,
                 osClipboard, autoSyncEnabled, lastArrival>>
  /\ Elsewhere

(***************************************************************************)
(* Terminal-only mode (this.terminalOnly with a TerminalClipboard).  The   *)
(* clipboard commands are awaited there: a handler that reaches one stops, *)
(* other handlers run, and the rest of it runs when the command has ended. *)
(* awaited holds the commands in flight, in the order they were started;   *)
(* they end in any order.                                                  *)
(***************************************************************************)

\* updateClipboard stopped at await this.terminalClipboard.write(content)
AwaitedWrite(content, sourceId, contentHash) ==
  [op |-> "write", content |-> content, sourceId |-> sourceId, hash |-> contentHash,
   timestamp |-> now]

\* the poller's tick stopped at await this.terminalClipboard.read(); content is
\* what the command has read
AwaitedRead(content) ==
  [op |-> "read", content |-> content, sourceId |-> "local",
   hash |-> generateHash(content), timestamp |-> now]

RemoveAwaited(i) == SubSeq(awaited, 1, i - 1) \o SubSeq(awaited, i + 1, Len(awaited))

\* the commands in flight that are writes
AwaitedWrites == {i \in DOMAIN awaited : awaited[i].op = "write"}

\* the state a call r of updateClipboard leaves in terminal-only mode when it
\* returns to its caller: at the awaited write where it makes one, at its end
\* where it makes none; rest is what else is in flight
terminalCall(r, content, sourceId, autoWrite, rest) ==
  IF r.outcome = "accepted" /\ writesClipboard(autoWrite, sourceId)
  THEN /\ lastClipboard' = r.lastClipboard
       /\ lastClipboardHash' = r.lastClipboardHash
       /\ lastSyncTime' = r.lastSyncTime
       /\ conflictResolver' = r.conflictResolver
       /\ lastArrival' = r.lastArrival
       /\ syncQueue' = r.syncQueue
       /\ timers' = r.timers
       /\ emitted' = <<>>
       /\ awaited' = Append(rest, AwaitedWrite(content, sourceId, generateHash(content)))
       /\ UNCHANGED <<clipboardHistory, osClipboard>>
  ELSE /\ Apply(r)
       /\ awaited' = rest

\* the updateData of a call that began at time t
stamped(evs, t) == [i \in DOMAIN evs |-> [evs[i] EXCEPT !.timestamp = t]]

\* socket.on('clipboard-update') in terminal-only mode
TerminalUpdate(d, content, autoWrite, room, flight) ==
  LET r == updateClipboard(content, d, autoWrite, now, syncQueue, processing, timers, TRUE)
  IN /\ sockets[d] = "open"
     /\ Fits(r, room)
     /\ Len(awaited) < flight
     /\ terminalCall(r, content, d, autoWrite, awaited)
     /\ processing' = r.processing
     /\ UNCHANGED <<now, sockets, connectedDevices, autoSyncEnabled, pollerVars, client,
                    browser>>

\* the timer callback of processSyncQueue in terminal-only mode
TerminalTimerFire(i, flight) ==
  LET rest == SubSeq(timers, 1, i - 1) \o SubSeq(timers, i + 1, Len(timers))
      latest == popLatest(syncQueue)
      r == updateClipboard(latest.content, latest.sourceId, latest.autoWrite,
                           latest.arrived, <<>>, processing, rest, TRUE)
  IN /\ i \in 1..Len(timers)
     /\ timers[i] <= now
     /\ Len(awaited) < flight
     /\ IF syncQueue # <<>>
        THEN terminalCall(r, latest.content, latest.sourceId, latest.autoWrite, awaited)
        ELSE /\ timers' = rest
             /\ emitted' = <<>>
             /\ UNCHANGED <<lastClipboard, lastClipboardHash, lastSyncTime, conflictResolver,
                            clipboardHistory, osClipboard, syncQueue, lastArrival, awaited>>
     /\ processing' = FALSE
     /\ UNCHANGED <<now, sockets, connectedDevices, autoSyncEnabled, pollerVars, client,
                    browser>>

\* the rest of updateClipboard once the awaited write i has ended: the catch, the
\* history, the broadcast
TerminalWriteDone(i, writeOk) ==
  /\ i \in AwaitedWrites
  /\ osClipboard' = IF writeOk THEN awaited[i].content ELSE osClipboard
  /\ clipboardHistory' = addToHistory(clipboardHistory, awaited[i].content, now)
  /\ emitted' =
       (IF historyUntouched(clipboardHistory, awaited[i].content) THEN <<>>
        ELSE historyEvents(SetToSeq(OpenSockets),
                           addToHistory(clipboardHistory, awaited[i].content, now)))
       \o stamped(fanOut(SetToSeq(DOMAIN connectedDevices), awaited[i].content,
                         awaited[i].sourceId, awaited[i].hash),
                  awaited[i].timestamp)
  /\ awaited' = RemoveAwaited(i)
  /\ UNCHANGED <<now, sockets, connectedDevices, lastClipboard, lastClipboardHash,
                 lastSyncTime, conflictResolver, syncQueue, processing, timers,
                 autoSyncEnabled, lastArrival, pollerVars, client, browser>>

\* a tick of the poller in terminal-only mode, up to the awaited read
TerminalPollStart(readOk, flight) ==
  /\ monitors # {}
  /\ Len(awaited) < flight
  /\ awaited' = IF tryRead(osClipboard, readOk).status = "ok"
                THEN Append(awaited, AwaitedRead(osClipboard))
                ELSE awaited
  /\ emitted' = <<>>
  /\ UNCHANGED <<now, sockets, connectedDevices, engineVars, autoSyncEnabled, pollerVars,
                 client, browser>>

\* the rest of that tick once the awaited read i has ended
TerminalPollDone(i, room) ==
  LET r == updateClipboard(awaited[i].content, "local", FALSE, now, syncQueue, processing,
                           timers, TRUE)
  IN /\ i \in DOMAIN awaited
     /\ awaited[i].op = "read"
     /\ IF pollerIngests(awaited[i].content)
        THEN /\ Fits(r, room)
             /\ terminalCall(r, awaited[i].content, "local", FALSE, RemoveAwaited(i))
             /\ processing' = r.processing
        ELSE /\ emitted' = <<>>
             /\ awaited' = RemoveAwaited(i)
             /\ UNCHANGED engineVars
     /\ UNCHANGED <<now, sockets, connectedDevices, autoSyncEnabled, pollerVars, client,
                    browser>>

(***************************************************************************)
(* The next-state relation over a scope sc: the sockets that connect, the  *)
(* sockets that send clipboard text, the texts they and the API send, the  *)
(* texts the local user copies, the autoWrite flags sent, the outcomes of  *)
(* the system clipboard calls, the values POST /api/settings sets, the     *)
(* history indexes asked for, the clock's steps and horizon and the room   *)
(* in the pending queue.  EngineNext holds the handlers that reach         *)
(* updateClipboard with new text or change what it reads; NextOn adds the  *)
(* socket handlers that leave lastClipboard, the queue, the timers and the *)
(* conflict map alone or replay a history item; SettingsNext and           *)
(* HistoryRouteNext are the two remaining routes.                          *)
(***************************************************************************)
EngineNext(sc) ==
  \/ \E d \in sc.devices : Connect(d)
  \/ \E d \in sc.devices, autoSync \in BOOLEAN : RegisterDevice(d, autoSync)
  \/ \E d \in sc.senders, content \in sc.contents, autoWrite \in sc.autoWrites,
        writeOk \in sc.writeOks :
        ClipboardUpdate(d, content, autoWrite, writeOk, sc.room)
  \/ \E content \in sc.apiContents, writeOk \in sc.writeOks :
        ApiPostClipboard(content, writeOk, sc.room)
  \/ \E readOk \in sc.readOks : PollTick(readOk, sc.room)
  \/ \E i \in 1..Len(timers), writeOk \in sc.writeOks : TimerFire(i, writeOk)
  \/ \E content \in sc.copies : UserCopy(content)
  \/ \E step \in sc.steps : Tick(step, sc.horizon)

NextOn(sc) ==
  \/ EngineNext(sc)
  \/ \E d \in sc.devices, enabled \in BOOLEAN : ToggleAutoSync(d, enabled)
  \/ \E d \in sc.devices : Disconnect(d)
  \/ \E d \in sc.devices : ForceSync(d)
  \/ \E d \in sc.devices, readOk \in sc.readOks : RequestClipboard(d, readOk)
  \/ \E d \in sc.senders, index \in sc.indexes, writeOk \in sc.writeOks :
        UseHistoryItem(d, index, writeOk, sc.room)

\* POST /api/settings over a scope
SettingsNext(sc) ==
  \E autoSync \in sc.settings, interval \in sc.intervals : ApiSettings(autoSync, interval)

\* POST /api/history/:index over a scope
HistoryRouteNext(sc) ==
  \E index \in sc.indexes, writeOk \in sc.writeOks : ApiUseHistory(index, writeOk, sc.room)

(***************************************************************************)
(* Scopes.  The handlers treat all socket ids alike, so a scope with one   *)
(* sending socket stands for any.                                          *)
(***************************************************************************)
\* the content filter: texts that pass and texts that do not, from a socket,
\* the API and the local user
ScopeClipboard ==
  [devices |-> {"d1"}, senders |-> {"d1"},
   contents |-> {TextA, TextKey, TextBig, Empty}, apiContents |-> {TextKey, Undefined},
   copies |-> {TextKey}, autoWrites |-> {TRUE}, writeOks |-> {TRUE},
   readOks |-> {TRUE}, settings |-> {TRUE}, indexes |-> {-1, 0, 1}, intervals |-> {<<>>},
   steps |-> {50}, horizon |-> MaxIntervals - 1, room |-> MaxQueue - 1]

\* the poller: every autoWrite flag and every outcome of the system clipboard calls
ScopePoller ==
  [devices |-> {"d1"}, senders |-> {"d1"},
   contents |-> {TextA, TextB}, apiContents |-> {TextB},
   copies |-> {TextB}, autoWrites |-> BOOLEAN, writeOks |-> BOOLEAN,
   readOks |-> BOOLEAN, settings |-> {TRUE}, indexes |-> {0}, intervals |-> {<<>>}, steps |-> {50},
   horizon |-> MaxIntervals - 1, room |-> MaxQueue - 1]

\* the fan-out: three sockets, registered or not, auto-sync on or off
ScopeDevices ==
  [devices |-> Devices, senders |-> {"d1"},
   contents |-> {TextA, TextB}, apiContents |-> {TextA},
   copies |-> {TextA}, autoWrites |-> {TRUE}, writeOks |-> {TRUE},
   readOks |-> {TRUE}, settings |-> {TRUE}, indexes |-> {0}, intervals |-> {<<>>}, steps |-> {50},
   horizon |-> MaxIntervals - 1, room |-> MaxQueue - 1]

\* the rate limit, the queue and the conflict window: one socket and the API as
\* sources, and a clock that steps by a little more than the
\* interval, so that updates one step apart are more than minSyncInterval apart
\* and a timer callback may run late
ScopeTiming ==
  [devices |-> {"d1"}, senders |-> {"d1"},
   contents |-> {TextA, TextB, TextKey}, apiContents |-> {TextA},
   copies |-> {TextB}, autoWrites |-> {TRUE}, writeOks |-> {TRUE},
   readOks |-> {TRUE}, settings |-> {TRUE}, indexes |-> {0}, intervals |-> {<<>>}, steps |-> {51},
   horizon |-> MaxIntervals, room |-> MaxQueue]

\* the global switch: as ScopeTiming, with POST /api/settings turning sync off and on
ScopeGate == [ScopeTiming EXCEPT !.settings = BOOLEAN, !.contents = {TextA, TextB}]

\* texts that come back after the conflict window has passed: as ScopeTiming, with a
\* clock that steps by the length of the window
ScopeSlow ==
  [ScopeTiming EXCEPT !.steps = {conflictWindow}, !.room = MaxQueue - 1]

\* the settings route: polling intervals absent, below the minimum, at it and above it
ScopeSettings ==
  [devices |-> {"d1"}, senders |-> {"d1"},
   contents |-> {TextA}, apiContents |-> {TextA},
   copies |-> {TextB}, autoWrites |-> {TRUE}, writeOks |-> {TRUE},
   readOks |-> {TRUE}, settings |-> {TRUE}, indexes |-> {0},
   intervals |-> {<<>>, <<minPollingInterval - 1>>, <<minPollingInterval>>,
                  <<2 * defaultPollingInterval>>},
   steps |-> {50}, horizon |-> MaxIntervals - 1, room |-> MaxQueue - 1]

Next == NextOn(ScopeClipboard) \/ HistoryRouteNext(ScopeClipboard)

Spec == Init /\ [][Next]_vars

NextDevices == NextOn(ScopeDevices)

SpecDevices == Init /\ [][NextDevices]_vars

\* the fan-out under register, toggle-auto-sync and disconnect events: the socket
\* handlers and the timer callback alone
NextFanOut ==
  \/ \E d \in Devices : Connect(d)
  \/ \E d \in Devices, autoSync \in BOOLEAN : RegisterDevice(d, autoSync)
  \/ \E d \in {"d1", "d2"}, content \in {TextA, TextB} :
        ClipboardUpdate(d, content, TRUE, TRUE, MaxQueue - 1)
  \/ \E d \in Devices, enabled \in BOOLEAN : ToggleAutoSync(d, enabled)
  \/ \E d \in Devices : Disconnect(d)
  \/ \E i \in 1..Len(timers) : TimerFire(i, TRUE)
  \/ Tick(minSyncInterval, MaxIntervals - 1)

SpecFanOut == Init /\ [][NextFanOut]_vars

\* the replay of history items: texts posted through the API, one of them longer
\* than the stored form of a history item, and the two use-history handlers
NextReplay ==
  \/ Connect("d1")
  \/ \E content \in {TextA, TextLong} : ApiPostClipboard(content, TRUE, MaxQueue - 1)
  \/ \E index \in {0, 1} : UseHistoryItem("d1", index, TRUE, MaxQueue - 1)
  \/ \E index \in {0, 1} : ApiUseHistory(index, TRUE, MaxQueue - 1)
  \/ \E i \in 1..Len(timers) : TimerFire(i, TRUE)
  \/ Tick(minSyncInterval, MaxIntervals + 1)

SpecReplay == Init /\ [][NextReplay]_vars

\* the conflict window from both sides: the API as source of a text that is
\* accepted and of one that the filter rejects, a socket as receiver, and a clock
\* that steps by minSyncInterval or by the window, so that an update reaches the
\* conflict check less than the window, or the window and more, after the last one
\* of its hash
NextConflict ==
  \/ Connect("d1")
  \/ RegisterDevice("d1", TRUE)
  \/ \E content \in {TextA, TextKey} : ApiPostClipboard(content, TRUE, MaxQueue - 1)
  \/ \E i \in 1..Len(timers) : TimerFire(i, TRUE)
  \/ \E step \in {minSyncInterval, conflictWindow} : Tick(step, MaxIntervals)

SpecConflict == Init /\ [][NextConflict]_vars

\* the write to the system clipboard: updates of every source - a socket with
\* autoWrite on or off, the API, the history route, the poller - writes that
\* succeed or fail, and a clock that steps by the conflict window, so that a
\* history item is accepted again
NextWrite ==
  \/ Connect("d1")
  \/ \E content \in {TextA, TextB}, autoWrite \in BOOLEAN, writeOk \in BOOLEAN :
        ClipboardUpdate("d1", content, autoWrite, writeOk, MaxQueue - 1)
  \/ \E writeOk \in BOOLEAN : ApiPostClipboard(TextA, writeOk, MaxQueue - 1)
  \/ \E index \in {0, 1}, writeOk \in BOOLEAN :
        ApiUseHistory(index, writeOk, MaxQueue - 1)
  \/ PollTick(TRUE, MaxQueue - 1)
  \/ \E i \in 1..Len(timers), writeOk \in BOOLEAN : TimerFire(i, writeOk)
  \/ UserCopy(TextB)
  \/ Tick(conflictWindow, MaxIntervals)

SpecWrite == Init /\ [][NextWrite]_vars

\* the maintenance of the conflict map: texts posted through the API, a clock that
\* steps by the conflict window or by the pruning age and reaches the first run of
\* the maintenance callback
NextPrune ==
  \/ \E content \in {TextA, TextB} : ApiPostClipboard(content, TRUE, MaxQueue - 1)
  \/ \E i \in 1..Len(timers) : TimerFire(i, TRUE)
  \/ \E move \in {<<conflictWindow, MaxIntervals>>,
                  <<pruneAge, maintenancePeriod \div pruneAge>>} : Tick(move[1], move[2])
  \/ Maintenance

SpecPrune == Init /\ [][NextPrune]_vars

\* terminal-only mode: a registered socket that sends, the poller, and a clock
\* that steps by the conflict window, so that a text accepted earlier passes the
\* conflict check again
NextTerminal ==
  \/ Connect("d1")
  \/ RegisterDevice("d1", TRUE)
  \/ \E content \in {TextA, TextB} : TerminalUpdate("d1", content, TRUE, MaxQueue - 1, MaxQueue)
  \/ \E i \in 1..Len(timers) : TerminalTimerFire(i, MaxQueue)
  \/ \E i \in DOMAIN awaited : TerminalWriteDone(i, TRUE)
  \/ TerminalPollStart(TRUE, MaxQueue)
  \/ \E i \in DOMAIN awaited : TerminalPollDone(i, MaxQueue - 1)
  \/ Tick(conflictWindow, MaxIntervals)

SpecTerminal == Init /\ [][NextTerminal]_vars

\* writes that fail and no user: a registered socket sends texts with autoWrite
\* on, the write succeeds or fails, the poller ticks, nobody copies anything on
\* the server's machine, and the clock steps by the conflict window
NextFailedWrite ==
  \/ Connect("d1")
  \/ RegisterDevice("d1", TRUE)
  \/ \E content \in {TextA, TextB}, writeOk \in BOOLEAN :
       ClipboardUpdate("d1", content, TRUE, writeOk, MaxQueue - 1)
  \/ PollTick(TRUE, MaxQueue - 1)
  \/ \E i \in 1..Len(timers), writeOk \in BOOLEAN : TimerFire(i, writeOk)
  \/ Tick(conflictWindow, MaxIntervals)

SpecFailedWrite == Init /\ [][NextFailedWrite]_vars

\* force-sync: two sockets, one sending texts, one registered with autoSync off,
\* either asking for a resync, and a clock that steps by minSyncInterval, so that
\* a request comes inside the rate limit's interval or after it
NextForce ==
  \/ \E d \in {"d1", "d2"} : Connect(d)
  \/ RegisterDevice("d2", FALSE)
  \/ \E content \in {TextA, TextB} : ClipboardUpdate("d1", content, TRUE, TRUE, MaxQueue - 1)
  \/ \E d \in {"d1", "d2"} : ForceSync(d)
  \/ \E i \in 1..Len(timers) : TimerFire(i, TRUE)
  \/ Tick(minSyncInterval, MaxIntervals)

SpecForce == Init /\ [][NextForce]_vars

NextTiming == EngineNext(ScopeTiming)

SpecTiming == Init /\ [][NextTiming]_vars

NextSlow == EngineNext(ScopeSlow)

SpecSlow == Init /\ [][NextSlow]_vars

\* the history at its cap: more distinct texts than the history holds, posted in turn
\* through the API, at most one per minSyncInterval
MaxTexts == maxHistorySize + 2

Numbered(n) == Text("t", n)

NewestSize == IF clipboardHistory = <<>> THEN 0 ELSE Head(clipboardHistory).size

NextHistory ==
  \/ \E n \in 1..MaxTexts : n = NewestSize + 1 /\ ApiPostClipboard(Numbered(n), TRUE, 0)
  \/ Tick(minSyncInterval, MaxTexts)

SpecHistory == Init /\ [][NextHistory]_vars

NextSettings == EngineNext(ScopeSettings) \/ SettingsNext(ScopeSettings)

SpecSettings == Init /\ [][NextSettings]_vars

NextGate == EngineNext(ScopeGate) \/ SettingsNext(ScopeGate)

SpecGate == Init /\ [][NextGate]_vars

NextPoller == EngineNext(ScopePoller)

SpecPoller == Init /\ [][NextPoller]_vars

(***************************************************************************)
(* The browser page (public/enhanced-app.js): one EnhancedUniversalClipboard *)
(* object, whose socket has the id ClientId while it is connected.  The    *)
(* events it sends to the server are in emitted with to = "server".  Its   *)
(* counters and its notifications are left out.  A handler runs to its end *)
(* in one step; a write that the browser refuses leaves a click listener   *)
(* behind, whose later click is not part of the handler.                   *)
(***************************************************************************)
ClientId == "d1"

\* generateHash of the page: a 32-bit number computed from the characters
simpleHash(content) == [int32 |-> content]

\* this.socket?.id
ownSocketId == IF client.isConnected THEN ClientId ELSE "undefined"

\* tryAutoWriteClipboard(content, from) of an object c in a page b
tryAutoWriteClipboard(c, b, content) ==
  IF content = Empty \/ content = c.lastContent THEN [client |-> c, browser |-> b]
  ELSE IF ~b.visible THEN [client |-> c, browser |-> b]
  ELSE IF b.granted
       THEN [client |-> [c EXCEPT !.lastContentHash = simpleHash(content)],
             browser |-> [b EXCEPT !.clipboard = content]]
  ELSE [client |-> c, browser |-> b]

\* handleClipboardUpdate(data)
handleClipboardUpdate(data) ==
  LET shown == [client EXCEPT !.currentContent = data.content,
                              !.lastContent = data.content,
                              !.lastContentHash = data.hash]
      shouldAutoWrite == shown.autoSyncEnabled /\ data.autoWrite
  IN IF data.from = ownSocketId THEN [client |-> client, browser |-> browser]
     ELSE IF shouldAutoWrite \/ data.force
          THEN tryAutoWriteClipboard(shown, browser, data.content)
          ELSE [client |-> shown, browser |-> browser]

\* what the handlers of the page leave alone
ServerKept ==
  UNCHANGED <<now, sockets, connectedDevices, engineVars, autoSyncEnabled, pollerVars,
              awaited>>

\* the clipboard-update events the server may send to the page
ClipboardUpdates ==
  {[ev |-> "clipboard-update", to |-> ClientId, content |-> content, from |-> from,
    timestamp |-> now, hash |-> generateHash(content), autoWrite |-> autoWrite,
    force |-> force] :
     content \in {TextA, TextB}, from \in {"d2", "server", ClientId},
     autoWrite \in BOOLEAN, force \in BOOLEAN}

\* this.socket.on('clipboard-update')
ClientReceive(data) ==
  /\ client.isConnected
  /\ client' = handleClipboardUpdate(data).client
  /\ browser' = handleClipboardUpdate(data).browser
  /\ emitted' = <<>>
  /\ ServerKept

\* handleConnect
ClientConnect ==
  /\ ~client.isConnected
  /\ client' = [client EXCEPT !.isConnected = TRUE]
  /\ emitted' = <<[ev |-> "register-device", to |-> "server",
                   autoSync |-> client.autoSyncEnabled]>>
  /\ UNCHANGED browser
  /\ ServerKept

\* handleDisconnect
ClientDisconnect ==
  /\ client.isConnected
  /\ client' = [client EXCEPT !.isConnected = FALSE]
  /\ emitted' = <<>>
  /\ UNCHANGED browser
  /\ ServerKept

\* toggleAutoSync(enabled)
ClientToggleAutoSync(enabled) ==
  /\ client' = [client EXCEPT !.autoSyncEnabled = enabled]
  /\ emitted' = IF client.isConnected
                THEN <<[ev |-> "toggle-auto-sync", to |-> "server", enabled |-> enabled]>>
                ELSE <<>>
  /\ UNCHANGED browser
  /\ ServerKept

\* the tests of checkClipboardChange on an object c in a page b: the guard, the read
\* that the browser allows, and the comparison of the hashes
detectsChange(c, b) ==
  /\ c.clipboardAPISupported
  /\ c.autoSyncEnabled
  /\ c.isConnected
  /\ b.granted
  /\ simpleHash(b.clipboard) # c.lastContentHash
  /\ b.clipboard # Empty

\* checkClipboardChange, the callback of the page's own monitor
ClientCheckClipboardChange ==
  LET content == browser.clipboard
      changed == detectsChange(client, browser)
  IN /\ IF changed
        THEN /\ emitted' = <<[ev |-> "clipboard-update", to |-> "server",
                              content |-> content, timestamp |-> now]>>
             /\ client' = [client EXCEPT !.lastContent = content,
                                         !.lastContentHash = simpleHash(content),
                                         !.currentContent = content]
        ELSE /\ emitted' = <<>>
             /\ UNCHANGED client
     /\ UNCHANGED browser
     /\ ServerKept

\* the user of the page copies a text, hides or shows the page, or answers the
\* browser's permission prompt
PageChange(clipboard, visible, granted) ==
  /\ browser' = [clipboard |-> clipboard, visible |-> visible, granted |-> granted]
  /\ browser' # browser
  /\ emitted' = <<>>
  /\ UNCHANGED client
  /\ ServerKept

NextClient ==
  \/ \E data \in ClipboardUpdates : ClientReceive(data)
  \/ ClientConnect
  \/ ClientDisconnect
  \/ \E enabled \in BOOLEAN : ClientToggleAutoSync(enabled)
  \/ ClientCheckClipboardChange
  \/ \E clipboard \in {Empty, TextA, TextB}, visible \in BOOLEAN, granted \in BOOLEAN :
        PageChange(clipboard, visible, granted)

SpecClient == Init /\ [][NextClient]_vars


(***************************************************************************)
(* Vocabulary of the properties.                                           *)
(***************************************************************************)
AllTexts == {TextA, TextB, TextKey, TextBig, Empty}

\* the positions in evs of the clipboard-update events sent to socket d
UpdatesTo(evs, d) ==
  {i \in DOMAIN evs : evs[i].ev = "clipboard-update" /\ evs[i].to = d}

\* the positions in evs of the clipboard-history events sent to socket d
HistoriesTo(evs, d) ==
  {i \in DOMAIN evs : evs[i].ev = "clipboard-history" /\ evs[i].to = d}

\* the step gives lastClipboard the new value c (every accepting call does; tested
\* first, it spares evaluating the handlers on the other steps)
Sets(c) == lastClipboardHash # generateHash(c) /\ lastClipboardHash' = generateHash(c)

\* the step is socket d's clipboard-update handler and updateClipboard accepts c at once
DirectAccept(d, c) ==
  Sets(c) /\ \E autoWrite \in BOOLEAN, writeOk \in BOOLEAN :
    /\ updateClipboard(c, d, autoWrite, now, syncQueue, processing, timers,
                       writeOk).outcome = "accepted"
    /\ ClipboardUpdate(d, c, autoWrite, writeOk, MaxQueue)

\* the step is the timer callback and updateClipboard accepts the queued c of source d
DeferredAccept(d, c) ==
  /\ Sets(c)
  /\ syncQueue # <<>>
  /\ LET latest == popLatest(syncQueue)
     IN /\ latest.sourceId = d
        /\ latest.content = c
        /\ \E i \in 1..Len(timers), writeOk \in BOOLEAN :
             /\ updateClipboard(c, d, latest.autoWrite, latest.arrived, <<>>,
                                processing, timers, writeOk).outcome = "accepted"
             /\ TimerFire(i, writeOk)

AcceptedFrom(d, c) == DirectAccept(d, c) \/ DeferredAccept(d, c)

\* what every handler that calls updateClipboard leaves alone (tested first, it
\* spares evaluating the handlers on the other steps)
HandlerFrame == UNCHANGED <<now, sockets, connectedDevices, autoSyncEnabled>>

\* the step is an update with text c reaching updateClipboard from source src
IngestFrom(src, c) ==
  /\ HandlerFrame
  /\ CASE src = "api" -> \E writeOk \in BOOLEAN : ApiPostClipboard(c, writeOk, MaxQueue)
       [] src = "local" -> osClipboard = c /\ pollerIngests(c) /\ PollTick(TRUE, MaxQueue)
       [] OTHER -> \E autoWrite \in BOOLEAN, writeOk \in BOOLEAN :
                     ClipboardUpdate(src, c, autoWrite, writeOk, MaxQueue)

\* the step is a run of the timer callback
TimerStep ==
  /\ HandlerFrame
  /\ timers' # timers
  /\ \E i \in 1..Len(timers), writeOk \in BOOLEAN : TimerFire(i, writeOk)

\* after the step every registered socket with autoSync on, src apart, holds one
\* clipboard-update event, with text c from src
BroadcastOf(c, src) ==
  \A d \in DOMAIN connectedDevices :
    (d # src /\ connectedDevices[d].autoSync) =>
      /\ Cardinality(UpdatesTo(emitted', d)) = 1
      /\ \A i \in UpdatesTo(emitted', d) : emitted'[i].content = c /\ emitted'[i].from = src

\* after the step c is the last accepted text, accepted now, at the front of the
\* history and broadcast
AcceptedNow(c, src) ==
  /\ lastClipboard' = c
  /\ lastClipboardHash' = generateHash(c)
  /\ lastSyncTime' = now
  /\ clipboardHistory' # <<>>
  /\ Head(clipboardHistory').hash = generateHash(c)
  /\ BroadcastOf(c, src)

(***************************************************************************)
(* C1.  Echo suppression: no clipboard-update event the server emits for   *)
(* an accepted update, processed at once or after the queue, is sent to    *)
(* the socket the update came from.                                        *)
(***************************************************************************)
EchoSuppression ==
  \A i \in DOMAIN emitted :
    emitted[i].ev = "clipboard-update" => emitted[i].to # emitted[i].from

\* d1, registered with autoSync on, had its queued update accepted and broadcast by the timer
EchoSuppressionWitness ==
  /\ "d1" \in DOMAIN connectedDevices
  /\ connectedDevices["d1"].autoSync
  /\ lastArrival < lastSyncTime
  /\ \E i \in DOMAIN emitted :
       emitted[i].ev = "clipboard-update" /\ emitted[i].from = "d1"

(***************************************************************************)
(* C2.  Filter correctness: no text the content filter rejects (sensitive  *)
(* pattern, over maxContentLength, empty) is in the history or in any      *)
(* clipboard-update event the server emits, be it the broadcast on accept, *)
(* the send to a registering socket or the reply to force-sync.            *)
(***************************************************************************)
FilterCorrectness ==
  [][( \/ \E d \in Devices, autoSync \in BOOLEAN : RegisterDevice(d, autoSync)
       \/ \E d \in Devices : ForceSync(d)
       \/ \E c \in AllTexts, src \in {"d1", "api", "local"} : IngestFrom(src, c)
       \/ TimerStep )
     => /\ \A k \in DOMAIN clipboardHistory' :
             \A c \in AllTexts :
               isContentFiltered(c) => clipboardHistory'[k].hash # generateHash(c)
        /\ \A i \in DOMAIN emitted' :
             emitted'[i].ev = "clipboard-update" =>
               ~isContentFiltered(emitted'[i].content)]_vars

\* two updates of different content end the queue
QueuedPair ==
  /\ Len(syncQueue) >= 2
  /\ syncQueue[Len(syncQueue) - 1].content # syncQueue[Len(syncQueue)].content

\* the gate, the loop suppression, the rate limit and the filter let u through now
Passes(u) ==
  /\ ~gateCloses(u.sourceId)
  /\ ~loopSuppressed(u.hash)
  /\ ~rateLimited(now)
  /\ ~isContentFiltered(u.content)

\* the step neither evaluates nor keeps u1: it stays out of the queue, and is no more
\* the last text, in an event or in the history than it was
OlderDropped(u1, u2) ==
  /\ Len(syncQueue') <= 1
  /\ syncQueue' # <<>> => syncQueue'[1].content = u2.content
  /\ lastClipboard' = u1.content => lastClipboard = u1.content
  /\ \A i \in DOMAIN emitted' :
       emitted'[i].ev = "clipboard-update" => emitted'[i].content # u1.content
  /\ \A k \in DOMAIN clipboardHistory' :
       clipboardHistory'[k].hash = u1.hash =>
         \E j \in DOMAIN clipboardHistory : clipboardHistory[j].hash = u1.hash

Sources == {"d1", "api", "local"}

JustAccepted(c) ==
  lastClipboardHash = generateHash(c) /\ lastSyncTime = now /\ ~isContentFiltered(c)

JustQueued(c) ==
  /\ syncQueue # <<>>
  /\ syncQueue[Len(syncQueue)].content = c
  /\ syncQueue[Len(syncQueue)].timestamp = now

Ordering ==
  [][lastClipboardHash' # lastClipboardHash =>
       lastArrival' + minSyncInterval >= lastArrival]_vars

\* c arrives more than minSyncInterval after the last update that was not queued,
\* which was accepted (it heads the history) unless none has been yet, and differs from it
SpacedUpdate(c) ==
  /\ autoSyncEnabled
  /\ ~isContentFiltered(c)
  /\ now - lastSyncTime > minSyncInterval
  /\ generateHash(c) # lastClipboardHash
  /\ clipboardHistory = <<>> \/ Head(clipboardHistory).hash = lastClipboardHash

PollerNoOp ==
  [][/\ \A c \in AllTexts :
          ( /\ updateClipboard(c, "d1", TRUE, now, syncQueue, processing, timers,
                               TRUE).outcome = "accepted"
            /\ ClipboardUpdate("d1", c, TRUE, TRUE, MaxQueue) )
          => /\ osClipboard' = c
             /\ lastClipboardHash' = generateHash(osClipboard')
     /\ ( /\ osClipboard = lastClipboard
          /\ \E readOk \in BOOLEAN : PollTick(readOk, MaxQueue) )
        => (emitted' = <<>> /\ UNCHANGED engineVars)]_vars

\* the text d1 sent was accepted and written a while ago and is still on the clipboard
PollerNoOpWitness ==
  /\ osClipboard = TextA
  /\ lastClipboard = TextA
  /\ clipboardHistory # <<>>
  /\ Head(clipboardHistory).hash = generateHash(TextA)
  /\ now > lastSyncTime

EndToEndFanOut ==
  [][\A c \in AllTexts :
       ( /\ DOMAIN connectedDevices = {"d1", "d2", "d3"}
         /\ \A d \in DOMAIN connectedDevices : connectedDevices[d].autoSync
         /\ autoSyncEnabled
         /\ Length(c) <= previewLimit
         /\ DirectAccept("d1", c) )
       => /\ \A d \in {"d2", "d3"} :
               /\ Cardinality(UpdatesTo(emitted', d)) = 1
               /\ \A i \in UpdatesTo(emitted', d) :
                    emitted'[i].content = c /\ emitted'[i].from = "d1"
          /\ UpdatesTo(emitted', "d1") = {}
          /\ clipboardHistory' # <<>>
          /\ Head(clipboardHistory').size = Length(c)
          /\ Head(clipboardHistory').preview = c]_vars

\* all three registered with autoSync on; d1's text reached d2 and d3 and heads the history
EndToEndFanOutWitness ==
  /\ DOMAIN connectedDevices = {"d1", "d2", "d3"}
  /\ \A d \in DOMAIN connectedDevices : connectedDevices[d].autoSync
  /\ \A d \in {"d2", "d3"} :
       \E i \in UpdatesTo(emitted, d) : emitted[i].from = "d1" /\ emitted[i].content = TextA
  /\ UpdatesTo(emitted, "d1") = {}
  /\ clipboardHistory # <<>>
  /\ Head(clipboardHistory).preview = TextA
  /\ Head(clipboardHistory).size = 5


(***************************************************************************)
(* C10.  Global gate: while autoSyncEnabled is false, an update from a     *)
(* connected socket changes nothing (last text, hash and time, queue,      *)
(* conflict map, history, system clipboard) and emits nothing; when the    *)
(* timer callback re-evaluates a socket's update queued before the switch  *)
(* was turned off, the callback has emptied the queue and the              *)
(* re-evaluation changes, adds and emits nothing.                          *)
(***************************************************************************)
GlobalGate ==
  [][~autoSyncEnabled =>
       /\ \A c \in AllTexts :
            IngestFrom("d1", c) => (emitted' = <<>> /\ UNCHANGED engineVars)
       /\ (syncQueue # <<>> /\ popLatest(syncQueue).sourceId \in Devices /\ TimerStep) =>
            /\ emitted' = <<>>
            /\ syncQueue' = <<>>
            /\ UNCHANGED <<lastClipboard, lastClipboardHash, lastSyncTime,
                           conflictResolver, clipboardHistory, osClipboard, lastArrival>>]_vars

\* sync is off, d1's update queued before is the latest in the queue and its timer is due
GlobalGateWitness ==
  /\ ~autoSyncEnabled
  /\ syncQueue # <<>>
  /\ popLatest(syncQueue).sourceId = "d1"
  /\ ~isContentFiltered(popLatest(syncQueue).content)
  /\ ~loopSuppressed(popLatest(syncQueue).hash)
  /\ \E i \in DOMAIN timers : timers[i] <= now
  /\ ~rateLimited(now)

\* the texts the content filter is to reject: the empty one, the over-long one and
\* the one that looks like a credential
RejectedTexts == {Empty, TextBig, TextKey}

\* an update with text c from src is past the gate, loop suppression, the rate limit
\* and the conflict check
PassesChecks(c, src) ==
  /\ ~gateCloses(src)
  /\ ~loopSuppressed(generateHash(c))
  /\ ~rateLimited(now)
  /\ ~inConflict(generateHash(c), now)

\* the step is the timer callback evaluating the queued text c of source src
TimerStepOf(c, src) ==
  /\ syncQueue # <<>>
  /\ popLatest(syncQueue).content = c
  /\ popLatest(syncQueue).sourceId = src
  /\ TimerStep

(***************************************************************************)
(* C11.  Rejected-content bookkeeping: an update that is past loop         *)
(* suppression, the rate limit and the conflict check and that the content *)
(* filter rejects becomes the last accepted text and hash, the history and *)
(* the OS clipboard stay as they are, nothing is emitted, and an update    *)
(* with the same text right after it is discarded by loop suppression.     *)
(***************************************************************************)
RejectedBookkeeping ==
  [][\A c \in RejectedTexts, src \in Sources :
       (PassesChecks(c, src) /\ (IngestFrom(src, c) \/ TimerStepOf(c, src))) =>
         /\ lastClipboard' = c
         /\ lastClipboardHash' = generateHash(c)
         /\ UNCHANGED <<clipboardHistory, osClipboard>>
         /\ emitted' = <<>>
         /\ \A again \in Sources :
              (updateClipboard(c, again, TRUE, now, syncQueue, processing, timers,
                               TRUE).outcome = "loop")']_vars

RejectedBookkeepingWitness ==
  /\ lastClipboard = TextKey
  /\ lastClipboardHash = generateHash(TextKey)
  /\ lastSyncTime = now
  /\ clipboardHistory # <<>>
  /\ Head(clipboardHistory).hash # generateHash(TextKey)
  /\ osClipboard = Head(clipboardHistory).content
  /\ emitted = <<>>

\* the step is an update with text c from src, made at once or by the timer callback,
\* whose clipboardy.writeSync fails
FailedWriteStep(c, src) ==
  /\ HandlerFrame
  /\ \/ src = "api" /\ ApiPostClipboard(c, FALSE, MaxQueue)
     \/ src \in Devices /\ ClipboardUpdate(src, c, TRUE, FALSE, MaxQueue)
     \/ /\ syncQueue # <<>>
        /\ popLatest(syncQueue).content = c
        /\ popLatest(syncQueue).sourceId = src
        /\ popLatest(syncQueue).autoWrite
        /\ \E i \in 1..Len(timers) : TimerFire(i, FALSE)

(***************************************************************************)
(* C13.  Write failure is non-fatal: when the OS clipboard write of an     *)
(* update that is being accepted fails, the update is still the last       *)
(* accepted one, is recorded at the front of the history and is broadcast  *)
(* to every registered auto-sync socket other than its source; the OS      *)
(* clipboard keeps its text and no exception leaves updateClipboard.       *)
(***************************************************************************)
WriteFailureNonFatal ==
  [][\A c \in AllTexts \ RejectedTexts, src \in {"d1", "api"} :
       (PassesChecks(c, src) /\ FailedWriteStep(c, src)) =>
         /\ AcceptedNow(c, src)
         /\ UNCHANGED osClipboard
         /\ tryWrite(writesClipboard(TRUE, src), FALSE) = "failed"]_vars

WriteFailureWitness ==
  /\ lastClipboard = TextB
  /\ lastSyncTime = now
  /\ osClipboard # TextB
  /\ clipboardHistory # <<>>
  /\ Head(clipboardHistory).hash = generateHash(TextB)
  /\ \E i \in UpdatesTo(emitted, "d1") : emitted[i].content = TextB /\ emitted[i].from = "api"

(***************************************************************************)
(* C14.  Invalid update: a clipboard-update or POST /api/clipboard whose   *)
(* content is the empty string is rejected before a fingerprint of it is   *)
(* stored: the last accepted hash, the conflict map and the last accepted  *)
(* time are unchanged, nothing is recorded and nothing is emitted.         *)
(***************************************************************************)
InvalidUpdateLeavesNoTrace ==
  [][\A src \in {"d1", "api"} :
       IngestFrom(src, Empty) =>
         /\ UNCHANGED <<lastClipboardHash, conflictResolver, lastSyncTime, clipboardHistory>>
         /\ emitted' = <<>>]_vars

\* the last update was a credential-like text of socket d1 that the filter rejected,
\* and the OS clipboard holds the text at the front of the history: nobody has copied
\* anything since that text was recorded
RejectedAndUntouched ==
  /\ lastClipboard = TextKey
  /\ clipboardHistory # <<>>
  /\ osClipboard = Head(clipboardHistory).content

(***************************************************************************)
(* C12.  Silent drop: once an update of a socket has been rejected by the  *)
(* content filter and nobody copies anything, no tick of the poller and no *)
(* timer callback of an update the poller queued sends a clipboard-update  *)
(* event to any socket.                                                    *)
(***************************************************************************)
SilentDrop ==
  [][(RejectedAndUntouched /\ (IngestFrom("local", osClipboard)
                                 \/ TimerStepOf(osClipboard, "local"))) =>
       \A d \in Devices : UpdatesTo(emitted', d) = {}]_vars

\* the step is a call of updateClipboard that accepts text c and so records it
RecordingOf(c) ==
  /\ HandlerFrame
  /\ Sets(c)
  /\ lastSyncTime' = now
  /\ c \notin RejectedTexts

\* no two items of the history have the same hash
NoDuplicateHashes(hist) ==
  \A j, k \in DOMAIN hist : hist[j].hash = hist[k].hash => j = k

(***************************************************************************)
(* C15.  History never duplicates: recording a text whose hash is in the   *)
(* history behind the front moves that item to the front and leaves the    *)
(* length and the other items' order as they are (A, B, A yields [A, B]);  *)
(* recording the hash of the front item changes nothing; and in every      *)
(* reachable state no two history items have the same hash.                *)
(***************************************************************************)
HistoryNeverDuplicates ==
  /\ [](NoDuplicateHashes(clipboardHistory))
  /\ [][\A c \in AllTexts :
          LET existingIndex == FindIndex(clipboardHistory, generateHash(c))
          IN RecordingOf(c) =>
               /\ existingIndex > 0 =>
                    /\ Len(clipboardHistory') = Len(clipboardHistory)
                    /\ Head(clipboardHistory') = clipboardHistory[existingIndex + 1]
                    /\ Tail(clipboardHistory') = RemoveAt(clipboardHistory, existingIndex)
               /\ existingIndex = 0 => UNCHANGED clipboardHistory]_vars

\* A, B, A: the item of A, recorded first, is in front of the younger item of B
HistoryNeverDuplicatesWitness ==
  /\ Len(clipboardHistory) = 2
  /\ clipboardHistory[1].hash = generateHash(TextA)
  /\ clipboardHistory[2].hash = generateHash(TextB)
  /\ clipboardHistory[1].timestamp < clipboardHistory[2].timestamp
  /\ lastClipboard = TextA
  /\ lastSyncTime = now

(***************************************************************************)
(* C16.  History cap: the history never holds more than maxHistorySize     *)
(* items, and recording a text that is not in a full history leaves it     *)
(* full, with the new item in front and the oldest item, the last one,     *)
(* gone.                                                                   *)
(***************************************************************************)
HistoryCap ==
  /\ [](Len(clipboardHistory) <= maxHistorySize)
  /\ [][\A n \in 1..MaxTexts :
          (/\ RecordingOf(Numbered(n))
           /\ FindIndex(clipboardHistory, generateHash(Numbered(n))) = -1
           /\ Len(clipboardHistory) = maxHistorySize) =>
             /\ Len(clipboardHistory') = maxHistorySize
             /\ Head(clipboardHistory').hash = generateHash(Numbered(n))
             /\ Tail(clipboardHistory') = SubSeq(clipboardHistory, 1, maxHistorySize - 1)]_vars

\* maxHistorySize + 1 texts were recorded: the first of them is not in the history
HistoryCapWitness ==
  /\ Len(clipboardHistory) = maxHistorySize
  /\ Head(clipboardHistory).hash = generateHash(Numbered(maxHistorySize + 1))
  /\ clipboardHistory[maxHistorySize].hash = generateHash(Numbered(2))

\* the history indexes a request may carry
Indexes == {-1, 0, 1, 2}

\* the step sends socket d an error event
ErrorSentTo(d) ==
  \E i \in DOMAIN emitted' : emitted'[i].to = d /\ emitted'[i].ev = "error"

(***************************************************************************)
(* C17.  History NotFound: a request to use the history item at an index   *)
(* outside [0, length of the history), made through POST                   *)
(* /api/history/:index or through the use-history-item event, is answered  *)
(* with an explicit not-found error to its caller (status 404, or an error *)
(* event to the socket), changes nothing of the engine's state and sends   *)
(* no clipboard event to any socket.                                       *)
(***************************************************************************)
HistoryNotFound ==
  [][\A index \in Indexes :
       ~validIndex(index) =>
         /\ (HandlerFrame /\ ApiUseHistory(index, TRUE, MaxQueue)) =>
              /\ useHistoryReply(index).status = 404
              /\ useHistoryReply(index).error # ""
              /\ UNCHANGED engineVars
              /\ emitted' = <<>>
         /\ \A d \in Devices :
              (HandlerFrame /\ UseHistoryItem(d, index, TRUE, MaxQueue)) =>
                /\ ErrorSentTo(d)
                /\ UNCHANGED engineVars
                /\ \A x \in Devices :
                     UpdatesTo(emitted', x) = {} /\ HistoriesTo(emitted', x) = {}]_vars

\* the outcomes of updateClipboard that the caller may report as a success
Successes == {"accepted", "queued"}

(***************************************************************************)
(* C19.  Typed result: POST /api/clipboard reports success only for an     *)
(* update that updateClipboard accepted or queued, never for one it        *)
(* rejected or ignored.                                                    *)
(***************************************************************************)
TypedResult ==
  [][\A c \in AllTexts :
       (IngestFrom("api", c) /\ postClipboardReply(c).success) =>
         updateClipboard(c, "api", TRUE, now, syncQueue, processing, timers,
                         TRUE).outcome \in Successes]_vars

\* the step is POST /api/settings with the polling interval given as interval
SettingsStep(interval) ==
  /\ UNCHANGED <<now, engineVars>>
  /\ \E autoSync \in BOOLEAN : ApiSettings(autoSync, interval)

(***************************************************************************)
(* C18.  Settings and poller timer: POST /api/settings with no polling     *)
(* interval or one below 50 leaves the polling interval and the poller's   *)
(* timer as they are; with one of 50 or more it sets the interval and      *)
(* starts the timer anew at that interval; and in every reachable state    *)
(* exactly one timer of the poller is set, the one this.clipboardMonitor   *)
(* holds, at the present polling interval.                                 *)
(***************************************************************************)
SettingsAndPoller ==
  /\ [](/\ Cardinality(monitors) = 1
        /\ \A m \in monitors : m.id = clipboardMonitor /\ m.interval = pollingInterval)
  /\ [][\A interval \in ScopeSettings.intervals :
          SettingsStep(interval) =>
            IF interval # <<>> /\ interval[1] >= 50
            THEN /\ pollingInterval' = interval[1]
                 /\ \A m \in monitors' : m.interval = interval[1] /\ m.since = now
            ELSE UNCHANGED <<pollingInterval, clipboardMonitor, monitors>>]_vars

\* the poller was started anew at a longer interval, after the server's start
SettingsAndPollerWitness ==
  /\ pollingInterval = 2 * defaultPollingInterval
  /\ \E m \in monitors : m.interval = pollingInterval /\ m.since > minSyncInterval

(***************************************************************************)
(* C20.  Client auto-paste: when the connected page has auto-sync on, is   *)
(* visible and may write the clipboard, and receives a clipboard-update    *)
(* from another device whose autoWrite is not false, the handler leaves    *)
(* the received text in the device clipboard.                              *)
(***************************************************************************)
ClientAutoPaste ==
  [][\A data \in ClipboardUpdates :
       (/\ client.isConnected
        /\ client.autoSyncEnabled
        /\ browser.visible
        /\ browser.granted
        /\ data.from # ClientId
        /\ data.autoWrite
        /\ ClientReceive(data)) => browser.clipboard' = data.content]_vars


(***************************************************************************)
(* C21.  Fingerprint consistency across call sites: the hash the server    *)
(* puts in a clipboard-update event is the hash the page computes for the  *)
(* same content, so after the page has received an update from another     *)
(* device its stored last hash equals its own hash of the received text,   *)
(* and its monitor, reading that same text from the device clipboard,      *)
(* sees no change and sends nothing.                                       *)
(***************************************************************************)
FingerprintConsistency ==
  [][\A data \in ClipboardUpdates :
       (/\ client.isConnected
        /\ data.from # ClientId
        /\ ClientReceive(data))
       => /\ data.hash = simpleHash(data.content)
          /\ client.lastContentHash' = simpleHash(data.content)]_vars


(***************************************************************************)
(* C22.  Poller read errors: a poller tick whose OS clipboard read fails   *)
(* ingests nothing and changes no engine state, emits nothing, and leaves  *)
(* the poller's timer set; the poller is running in every state, and a     *)
(* tick that reads a changed text past the rate limit and the conflict     *)
(* check makes it the last accepted text.                                  *)
(***************************************************************************)
PollerReadErrors ==
  /\ [](monitors # {})
  /\ [][PollTick(FALSE, MaxQueue) =>
          /\ UNCHANGED <<engineVars, pollerVars>>
          /\ emitted' = <<>>]_vars
  /\ [][\A c \in {TextA, TextB} :
          (PassesChecks(c, "local") /\ IngestFrom("local", c)) =>
            /\ lastClipboard' = c
            /\ lastClipboardHash' = generateHash(c)
            /\ lastSyncTime' = now
            /\ Head(clipboardHistory').hash = generateHash(c)]_vars

\* the state a failed read leaves: a copied text the poller has yet to ingest
PollerReadErrorsWitness ==
  /\ monitors # {}
  /\ osClipboard = TextB
  /\ pollerIngests(osClipboard)
  /\ PassesChecks(osClipboard, "local")
  /\ emitted = <<>>


(***************************************************************************)
(* C23.  Fan-out target set: when an update of socket d1 or d2 is          *)
(* accepted, at once or by the timer callback, every socket that is open,  *)
(* registered with autoSync on and not the source is sent one              *)
(* clipboard-update event, and every other socket - never registered,      *)
(* auto-sync off, disconnected, or the source - is sent none; the          *)
(* registered sockets are open ones in every state.                        *)
(***************************************************************************)
FanOutTargetSet ==
  /\ [](\A d \in DOMAIN connectedDevices : sockets[d] = "open")
  /\ [][\A src \in {"d1", "d2"}, c \in {TextA, TextB} :
          AcceptedFrom(src, c) =>
            \A d \in Devices :
              /\ Cardinality(UpdatesTo(emitted', d)) =
                   IF /\ sockets[d] = "open"
                      /\ d \in DOMAIN connectedDevices
                      /\ connectedDevices[d].autoSync
                      /\ d # src
                   THEN 1 ELSE 0
              /\ \A i \in UpdatesTo(emitted', d) :
                   emitted'[i].content = c /\ emitted'[i].from = src]_vars

\* d2, registered with autoSync on, holds d1's text; d3 has disconnected and holds none
FanOutTargetSetWitness ==
  /\ sockets["d3"] = "closed"
  /\ "d2" \in DOMAIN connectedDevices
  /\ connectedDevices["d2"].autoSync
  /\ \E i \in UpdatesTo(emitted, "d2") : emitted[i].from = "d1" /\ emitted[i].content = TextA
  /\ UpdatesTo(emitted, "d3") = {}
  /\ UpdatesTo(emitted, "d1") = {}


\* the items of a history, whatever their order
Items(hist) == {hist[i] : i \in DOMAIN hist}

\* the step is a use of the history item at index, by socket d1 or by the API
UseStep(index) ==
  /\ HandlerFrame
  /\ \/ UseHistoryItem("d1", index, TRUE, MaxQueue)
     \/ ApiUseHistory(index, TRUE, MaxQueue)

(***************************************************************************)
(* C24.  Using a history item preserves the history's items: a use of the  *)
(* item at a valid index, by a socket or by the API, leaves the history    *)
(* with the items it had, at most in another order, whatever the length of *)
(* the text the item was recorded from.                                    *)
(***************************************************************************)
UsePreservesItems ==
  [][\A index \in {0, 1} :
       (validIndex(index) /\ UseStep(index)) =>
         /\ Items(clipboardHistory') = Items(clipboardHistory)
         /\ Len(clipboardHistory') = Len(clipboardHistory)]_vars


(***************************************************************************)
(* C25.  Promotion refreshes the item: the timestamps of the history are   *)
(* non-increasing from the front to the tail in every reachable state (an  *)
(* item moved to the front carries the time of the new occurrence).        *)
(***************************************************************************)
TimestampsOrdered ==
  \A i \in 1..(Len(clipboardHistory) - 1) :
    clipboardHistory[i].timestamp >= clipboardHistory[i + 1].timestamp


\* the conflict map holds an entry of c's hash that is younger than the conflict window
WithinWindow(c) ==
  /\ generateHash(c) \in DOMAIN conflictResolver
  /\ now - conflictResolver[generateHash(c)] < conflictWindow

\* an update with text c from src is past the gate, loop suppression and the rate limit
ReachesConflictCheck(c, src) ==
  /\ ~gateCloses(src)
  /\ ~loopSuppressed(generateHash(c))
  /\ ~rateLimited(now)

\* the step fans the text c out: a clipboard-update event that is no replay of the
\* server's current content
FansOut(c) ==
  \E i \in DOMAIN emitted' :
    /\ emitted'[i].ev = "clipboard-update"
    /\ emitted'[i].from # "server"
    /\ emitted'[i].content = c

(***************************************************************************)
(* C26.  No double win inside the conflict window: an update that reaches  *)
(* the conflict check less than 1000 ms after the last update of its hash  *)
(* that was accepted or rejected by the filter is discarded: last          *)
(* accepted text, hash and time and the history stay as they are and       *)
(* nothing is emitted.  Every step that fans a text out finds no entry of  *)
(* its hash younger than the window and records the hash at the current    *)
(* time, and entries are never removed or set back, so that no text is     *)
(* fanned out twice within 1000 ms.                                        *)
(***************************************************************************)
NoDoubleWin ==
  /\ [][\A c \in {TextA, TextKey} :
          (/\ ReachesConflictCheck(c, "api")
           /\ WithinWindow(c)
           /\ (IngestFrom("api", c) \/ TimerStepOf(c, "api")))
          => /\ emitted' = <<>>
             /\ UNCHANGED <<lastClipboard, lastClipboardHash, lastSyncTime,
                            clipboardHistory>>]_vars
  /\ [][\A c \in {TextA, TextKey} :
          FansOut(c) => /\ ~WithinWindow(c)
                        /\ conflictResolver'[generateHash(c)] = now]_vars
  /\ [][\A h \in DOMAIN conflictResolver :
          /\ h \in DOMAIN conflictResolver'
          /\ conflictResolver'[h] >= conflictResolver[h]]_vars

\* A was accepted and sent to d1 less than the window ago, another text since, and
\* an update A would now reach the conflict check
NoDoubleWinWitness ==
  /\ "d1" \in DOMAIN connectedDevices
  /\ connectedDevices["d1"].autoSync
  /\ clipboardHistory # <<>>
  /\ Head(clipboardHistory).hash = generateHash(TextA)
  /\ lastClipboard = TextKey
  /\ ReachesConflictCheck(TextA, "api")
  /\ WithinWindow(TextA)


(***************************************************************************)
(* C27.  Conflict-window recording: every update that is past the gate,    *)
(* loop suppression and the rate limit, evaluated at once or by the timer  *)
(* callback, leaves its hash in the conflict map with the current time,    *)
(* whether it is then accepted, rejected by the filter or discarded as a   *)
(* duplicate conflict.                                                     *)
(***************************************************************************)
ConflictRecording ==
  [][\A c \in {TextA, TextKey} :
       (/\ ReachesConflictCheck(c, "api")
        /\ (IngestFrom("api", c) \/ TimerStepOf(c, "api")))
       => /\ generateHash(c) \in DOMAIN conflictResolver'
          /\ conflictResolver'[generateHash(c)] = now]_vars


(***************************************************************************)
(* C28.  Single deferred timer: in every reachable state at most one       *)
(* deferred re-evaluation timer is pending, and one is pending exactly     *)
(* while this.processing is set; an update that is queued while a timer is *)
(* pending joins the queue and leaves the pending timer as it is.          *)
(***************************************************************************)
SingleDeferredTimer ==
  /\ [](Len(timers) <= 1 /\ (processing <=> timers # <<>>))
  /\ [][(timers # <<>> /\ Len(syncQueue') > Len(syncQueue)) => timers' = timers]_vars

\* two updates wait in the queue behind one pending timer
SingleDeferredTimerWitness ==
  /\ Len(syncQueue) = 2
  /\ Len(timers) = 1
  /\ processing


\* what updateClipboard returns when a handler calls it in the current state
CallOf(c, src, autoWrite, writeOk) ==
  updateClipboard(c, src, autoWrite, now, syncQueue, processing, timers, writeOk)

\* the step is a handler's call of updateClipboard with text c, source src and the
\* flag autoWrite, the write to the system clipboard succeeding or not
WriteStep(c, src, autoWrite, writeOk) ==
  /\ HandlerFrame
  /\ CASE src = "api" -> autoWrite /\ ApiPostClipboard(c, writeOk, MaxQueue)
       [] src = "history" ->
            /\ autoWrite
            /\ \E index \in {0, 1} :
                 /\ validIndex(index)
                 /\ clipboardHistory[index + 1].content = c
                 /\ ApiUseHistory(index, writeOk, MaxQueue)
       [] src = "local" ->
            ~autoWrite /\ osClipboard = c /\ pollerIngests(c) /\ PollTick(TRUE, MaxQueue)
       [] OTHER -> ClipboardUpdate(src, c, autoWrite, writeOk, MaxQueue)

\* the system clipboard after a step whose update is to be written or not
WrittenOnce(c, written, writeOk) ==
  IF written /\ writeOk THEN osClipboard' = c ELSE UNCHANGED osClipboard

(***************************************************************************)
(* C29.  OS clipboard write-back: an accepted update of the poller         *)
(* (source 'local') leaves the system clipboard alone, and updateClipboard *)
(* attempts no write for that source whatever the flag; an accepted update *)
(* of a socket, the API or the history route with autoWrite on makes one   *)
(* write attempt, which leaves the update's text in the system clipboard   *)
(* when it succeeds; one with autoWrite off makes none.  The same holds    *)
(* for an update accepted by the timer callback.                           *)
(***************************************************************************)
WriteBack ==
  /\ [](\A c \in {TextA, TextB}, autoWrite \in BOOLEAN :
          CallOf(c, "local", autoWrite, TRUE).wrote = "none")
  /\ [][\A c \in {TextA, TextB}, src \in {"d1", "api", "history", "local"},
           autoWrite \in BOOLEAN, writeOk \in BOOLEAN :
          (/\ Sets(c)
           /\ CallOf(c, src, autoWrite, writeOk).outcome = "accepted"
           /\ WriteStep(c, src, autoWrite, writeOk))
          => /\ CallOf(c, src, autoWrite, writeOk).wrote =
                  IF src # "local" /\ autoWrite
                  THEN (IF writeOk THEN "ok" ELSE "failed")
                  ELSE "none"
             /\ WrittenOnce(c, src # "local" /\ autoWrite, writeOk)]_vars
  /\ [][\A c \in {TextA, TextB}, writeOk \in BOOLEAN :
          (/\ Sets(c)
           /\ syncQueue # <<>>
           /\ popLatest(syncQueue).content = c
           /\ HandlerFrame
           /\ \E i \in 1..Len(timers) : TimerFire(i, writeOk))
          => WrittenOnce(c, /\ popLatest(syncQueue).sourceId # "local"
                            /\ popLatest(syncQueue).autoWrite, writeOk)]_vars

\* A was written to the system clipboard, which the local user never copied it to,
\* and B, accepted just now, was not
WriteBackWitness ==
  /\ osClipboard = TextA
  /\ lastClipboard = TextB
  /\ lastSyncTime = now
  /\ clipboardHistory # <<>>
  /\ Head(clipboardHistory).hash = generateHash(TextB)


(***************************************************************************)
(* C30.  Gate exemption: while autoSyncEnabled is false, an update of the  *)
(* local poller and an update posted through the API are not stopped by    *)
(* the global gate: one that loop suppression, the rate limit, the         *)
(* conflict check and the filter let through is accepted, recorded and     *)
(* broadcast as it is when sync is enabled.                                *)
(***************************************************************************)
GateExemption ==
  [][\A c \in {TextA, TextB}, src \in {"local", "api"} :
       (/\ ~autoSyncEnabled
        /\ ~loopSuppressed(generateHash(c))
        /\ ~rateLimited(now)
        /\ ~inConflict(generateHash(c), now)
        /\ IngestFrom(src, c)) => AcceptedNow(c, src)]_vars


(***************************************************************************)
(* C31.  Pruning keeps live entries: a run of the maintenance callback     *)
(* keeps, with its time, every conflict-map entry that is not older than   *)
(* 5000 ms, adds none, and leaves everything else as it is; for every text *)
(* the conflict check gives the same answer after the run as before it, so *)
(* no entry inside the 1000 ms window is lost.                             *)
(***************************************************************************)
PruningKeepsLive ==
  [][Maintenance =>
       /\ \A h \in DOMAIN conflictResolver :
            IF now - conflictResolver[h] > pruneAge
            THEN h \notin DOMAIN conflictResolver'
            ELSE h \in DOMAIN conflictResolver'
                 /\ conflictResolver'[h] = conflictResolver[h]
       /\ DOMAIN conflictResolver' \subseteq DOMAIN conflictResolver
       /\ \A c \in {TextA, TextB} : WithinWindow(c)' = WithinWindow(c)
       /\ UNCHANGED <<lastClipboard, lastClipboardHash, lastSyncTime, clipboardHistory,
                      syncQueue, timers>>]_vars

\* the callback has deleted the old entry of A and kept the entry of B, which is
\* inside the conflict window
PruningKeepsLiveWitness ==
  /\ now >= minSyncInterval + maintenancePeriod
  /\ \E i \in DOMAIN clipboardHistory : clipboardHistory[i].hash = generateHash(TextA)
  /\ generateHash(TextA) \notin DOMAIN conflictResolver
  /\ WithinWindow(TextB)


(***************************************************************************)
(* C32.  Queued updates are not stranded: in every reachable state a       *)
(* non-empty pending queue has a deferred re-evaluation scheduled (so that *)
(* every queued update is re-evaluated or superseded and the queue empties *)
(* once updates stop arriving).                                            *)
(***************************************************************************)
QueueNeverStranded == syncQueue # <<>> => timers # <<>>


(***************************************************************************)
(* C33.  Latest update wins: with sync enabled, when an update of a socket *)
(* arrives and the step leaves no update queued and no timer pending, the  *)
(* last accepted text is the text of that update - also when the text      *)
(* returns to an earlier value (A, B, A) within one second.                *)
(***************************************************************************)
LatestUpdateWins ==
  [][\A c \in {TextA, TextB} :
       (/\ autoSyncEnabled
        /\ IngestFrom("d1", c)
        /\ syncQueue' = <<>>
        /\ timers' = <<>>) => lastClipboard' = c]_vars


(***************************************************************************)
(* C34.  Client does not echo: when the page's monitor has nothing to send *)
(* (the device clipboard is the text the page last synced) and the page    *)
(* then receives a clipboard-update from another device, the device        *)
(* clipboard being left as it is by the user, the monitor still has        *)
(* nothing to send after the handler: its next poll emits no               *)
(* clipboard-update.                                                       *)
(***************************************************************************)
ClientDoesNotEcho ==
  [][\A data \in ClipboardUpdates :
       (/\ client.isConnected
        /\ data.from # ClientId
        /\ ~detectsChange(client, browser)
        /\ ClientReceive(data)) => ~detectsChange(client', browser')]_vars

(***************************************************************************)
(* C35.  Accept is atomic with respect to other ingests, also in           *)
(* terminal-only mode: when the last awaited write of updateClipboard ends *)
(* and its call records and broadcasts its text, the front item of the     *)
(* history and every clipboard-update event sent carry the last accepted   *)
(* text.                                                                   *)
(***************************************************************************)
AcceptOrder ==
  [][\A i \in DOMAIN awaited :
       (/\ HandlerFrame
        /\ TerminalWriteDone(i, TRUE)
        /\ AwaitedWrites' = {}) =>
         /\ clipboardHistory' # <<>>
         /\ clipboardHistory'[1].hash = lastClipboardHash'
         /\ \A j \in DOMAIN emitted' :
              emitted'[j].ev = "clipboard-update" => emitted'[j].content = lastClipboard']_vars


(***************************************************************************)
(* C36.  Poller versus accept: a tick of the poller whose awaited read     *)
(* returned the text the clipboard held before, and during whose read a    *)
(* text from a device was accepted (its write still in flight), does not   *)
(* make the text it read the last accepted text and sends it to no device. *)
(***************************************************************************)
PollerAcceptInterleaving ==
  [][\A i \in DOMAIN awaited :
       (/\ HandlerFrame
        /\ "d1" \in DOMAIN connectedDevices
        /\ awaited[i].op = "read"
        /\ awaited[i].content = osClipboard
        /\ awaited[i].content # lastClipboard
        /\ \E j \in AwaitedWrites :
             j > i /\ awaited[j].content = lastClipboard /\ awaited[j].sourceId = "d1"
        /\ TerminalPollDone(i, MaxQueue - 1)) =>
         /\ lastClipboard' = lastClipboard
         /\ UpdatesTo(emitted', "d1") = {}]_vars


(***************************************************************************)
(* C37.  An accepted update survives a failed write.  Where every update   *)
(* comes from a device with autoWrite on and no user copies anything, the  *)
(* system clipboard differs from the last accepted text only after a write *)
(* that failed; a tick of the poller that reads it then leaves the last    *)
(* accepted text as it is and sends no clipboard-update.                   *)
(***************************************************************************)
FailedWriteSurvives ==
  [][(/\ HandlerFrame
      /\ "d1" \in DOMAIN connectedDevices
      /\ osClipboard # lastClipboard
      /\ PollTick(TRUE, MaxQueue - 1)) =>
       /\ lastClipboard' = lastClipboard
       /\ UpdatesTo(emitted', "d1") = {}]_vars


(***************************************************************************)
(* C38.  The per-device flag at registration: the step in which a device   *)
(* registers with autoSync off sends it no clipboard-update, and no step   *)
(* in which an update is accepted sends one to a registered device whose   *)
(* autoSync is off.                                                        *)
(***************************************************************************)
NoAutomaticUpdate ==
  [][\A d \in Devices :
       /\ RegisterDevice(d, FALSE) => UpdatesTo(emitted', d) = {}
       /\ (/\ HandlerFrame
           /\ lastClipboardHash' # lastClipboardHash
           /\ d \in DOMAIN connectedDevices
           /\ ~connectedDevices[d].autoSync) => UpdatesTo(emitted', d) = {}]_vars


(***************************************************************************)
(* C39.  Force-sync is a read-only resync: the step of a socket's          *)
(* force-sync sends that socket one clipboard-update with the last         *)
(* accepted text and its hash, marked force, when that text is non-empty   *)
(* and nothing otherwise, inside the rate limit's interval as well as      *)
(* after it; it sends nothing to any other socket and leaves the last      *)
(* accepted text, hash and time, the queue, its timers, the conflict map,  *)
(* the history and the system clipboard as they are.                       *)
(***************************************************************************)
ForceSyncReadOnly ==
  [][\A d \in {"d1", "d2"} :
       ForceSync(d) =>
         /\ \A i \in DOMAIN emitted' :
              /\ emitted'[i].ev = "clipboard-update"
              /\ emitted'[i].to = d
              /\ emitted'[i].content = lastClipboard
              /\ emitted'[i].hash = lastClipboardHash
              /\ emitted'[i].force
         /\ Len(emitted') = IF lastClipboard # Empty THEN 1 ELSE 0
         /\ UNCHANGED <<lastClipboard, lastClipboardHash, lastSyncTime, syncQueue,
                        processing, timers, conflictResolver, clipboardHistory,
                        osClipboard, connectedDevices>>]_vars

\* d2, registered with autoSync off, has asked inside the rate limit's interval,
\* with an update queued, and been sent the last accepted text; d1 is connected
ForceSyncReadOnlyWitness ==
  /\ sockets["d1"] = "open"
  /\ "d2" \in DOMAIN connectedDevices
  /\ rateLimited(now)
  /\ syncQueue # <<>>
  /\ Len(emitted) = 1
  /\ emitted[1].ev = "clipboard-update"
  /\ emitted[1].to = "d2"
  /\ emitted[1].force
  /\ emitted[1].content = lastClipboard

=============================================================================
